---- MODULE Spec2Model ----
(***************************************************************************)
(* Model of src/backtest.py: the single-ticker simulator backtest() and    *)
(* the multi-ticker orchestrator backtest_all().                           *)
(*                                                                         *)
(* Floats are modelled as exact rationals [n, d] (d > 0, lowest terms);    *)
(* NaN / None is the record with d = 0.  Timestamps are integers; all bars *)
(* of the modelled inputs lie on the same day of consecutive months, so    *)
(* pd.DateOffset(months = m) subtracts m from a timestamp.                 *)
(*                                                                         *)
(* A frame is an input of the program.  Its shape (index, columns) is      *)
(* drawn when the frame is handed to the code; its cells are drawn at the  *)
(* loop iteration that first reads them (df["Signal"].iloc[i] and          *)
(* df.iloc[i + 1]), and the last row read stays in next_row, which is      *)
(* df.iloc[-1] when the loop has ended.                                    *)
(***************************************************************************)
EXTENDS Integers, Sequences, FiniteSets, TLC

\* ------------------------------------------------------------ bounds ----
MaxBars == 5
MaxDate == 5
MaxPrice == 2
MaxTickers == 2
MaxMonths == 1

\* ------------------------------------------------- exact arithmetic -----
RECURSIVE GCD(_, _)
GCD(a, b) == IF b = 0 THEN a ELSE GCD(b, a % b)

Abs(x) == IF x < 0 THEN -x ELSE x

NaN == [n |-> 0, d |-> 0]

NaT == 0 - 1

IsNaN(x) == x.d = 0

Rat(n, d) ==
    IF d = 0 THEN NaN
    ELSE LET g == GCD(Abs(n), Abs(d))
             s == IF d < 0 THEN -1 ELSE 1
         IN [n |-> s * (n \div g), d |-> s * (d \div g)]

Num(k) == [n |-> k, d |-> 1]

Mul(a, b) == IF IsNaN(a) \/ IsNaN(b) THEN NaN ELSE Rat(a.n * b.n, a.d * b.d)

Sub(a, b) == IF IsNaN(a) \/ IsNaN(b) THEN NaN ELSE Rat(a.n * b.d - b.n * a.d, a.d * b.d)

Add(a, b) == IF IsNaN(a) \/ IsNaN(b) THEN NaN ELSE Rat(a.n * b.d + b.n * a.d, a.d * b.d)

Div(a, b) == IF IsNaN(a) \/ IsNaN(b) \/ b.n = 0 THEN NaN ELSE Rat(a.n * b.d, a.d * b.n)

Gt0(a) == ~IsNaN(a) /\ a.n > 0

\* round(x, 2): the nearest multiple of 1/100, ties to the even hundredth.
Round2(x) ==
    IF IsNaN(x) THEN NaN
    ELSE LET v == x.n * 100
             q == v \div x.d
             r == v - q * x.d
             h == IF 2 * r < x.d THEN q
                  ELSE IF 2 * r > x.d THEN q + 1
                  ELSE IF q % 2 = 0 THEN q ELSE q + 1
         IN Rat(h, 100)

\* ------------------------------------------------------ sequences -------
Range(s) == {s[j] : j \in DOMAIN s}

SetMin(S) == CHOOSE x \in S : \A y \in S : x <= y

SetMax(S) == CHOOSE x \in S : \A y \in S : y <= x

RECURSIVE SortSet(_)
SortSet(S) == IF S = {} THEN << >> ELSE <<SetMin(S)>> \o SortSet(S \ {SetMin(S)})

Last(s) == s[Len(s)]

RECURSIVE SumPnL(_)
SumPnL(s) == IF s = << >> THEN Num(0) ELSE Add(s[1].PnL, SumPnL(Tail(s)))

\* ------------------------------------------------ program constants ---
\* config.INITIAL_CAPITAL, the default of initial_capital.
INITIAL_CAPITAL == 100000

Tickers == <<"T1", "T2", "T3">>

Columns == {"Open", "Close", "Signal"}

\* --------------------------------------------------- input domains ------
\* A raw Signal cell: NaN/None, a number (v10 is the value in tenths, so 15
\* is the float 1.5), an infinite float, or a string (a tuple of characters).
SigNaN == [kind |-> "nan", v10 |-> 0, s |-> << >>]

SigNum(t) == [kind |-> "num", v10 |-> t, s |-> << >>]

SigInf == [kind |-> "inf", v10 |-> 0, s |-> << >>]

SigStr(cs) == [kind |-> "str", v10 |-> 0, s |-> cs]

RawSignals ==
    {SigNaN, SigInf}
    \cup {SigNum(t) : t \in {-10, 15}}
    \cup {SigStr(cs) : cs \in {<<" ", "b", "u", "y", " ">>, <<"S">>, <<"H", "O", "L", "D">>}}

\* A raw Open/Close cell: NaN, a number, or text that is no number.
CellNaN == [kind |-> "nan", v |-> 0]

CellNum(p) == [kind |-> "num", v |-> p]

CellText == [kind |-> "text", v |-> 0]

RawPrices == {CellNaN, CellText} \cup {CellNum(p) : p \in 0..MaxPrice}

RawRows == [Open : RawPrices, Close : RawPrices]

\* Index values of a frame as handed in: distinct timestamps in any order.
RawIndexes ==
    UNION {{s \in [1..len -> 1..MaxDate] : \A a, b \in 1..len : a # b => s[a] # s[b]} :
           len \in 0..MaxBars}

\* dup: the frame has two columns labelled "Signal".
Frames ==
    {f \in [idx : RawIndexes, cols : SUBSET Columns, dup : BOOLEAN] :
        f.dup => "Signal" \in f.cols}

\* The documented example: four bars d0..d3 (timestamps 1..4).
ExampleFrame == [idx |-> <<1, 2, 3, 4>>, cols |-> Columns, dup |-> FALSE]

ExampleBars ==
    << [Open |-> CellNum(10), Close |-> CellNum(10), Signal |-> SigStr(<<"B", "U", "Y">>)],
       [Open |-> CellNum(11), Close |-> CellNum(12), Signal |-> SigStr(<<"H", "O", "L", "D">>)],
       [Open |-> CellNum(13), Close |-> CellNum(14), Signal |-> SigStr(<<"S", "E", "L", "L">>)],
       [Open |-> CellNum(15), Close |-> CellNum(15), Signal |-> SigStr(<<"H", "O", "L", "D">>)] >>

\* --------------------------------------------------------- helpers ------
\* _ensure_datetime_index: the frame with its rows sorted by timestamp.
EnsureDatetimeIndex(f) == [f EXCEPT !.idx = SortSet(Range(f.idx))]

IsSpace(c) == c \in {" ", "\t", "\n"}

RECURSIVE LStrip(_)
LStrip(cs) == IF cs # << >> /\ IsSpace(cs[1]) THEN LStrip(Tail(cs)) ELSE cs

RECURSIVE RStrip(_)
RStrip(cs) ==
    IF cs # << >> /\ IsSpace(cs[Len(cs)]) THEN RStrip(SubSeq(cs, 1, Len(cs) - 1)) ELSE cs

Strip(cs) == RStrip(LStrip(cs))

UpperChar(c) ==
    CASE c = "b" -> "B" [] c = "u" -> "U" [] c = "y" -> "Y" [] c = "s" -> "S"
      [] c = "e" -> "E" [] c = "l" -> "L" [] c = "h" -> "H" [] c = "o" -> "O"
      [] c = "d" -> "D" [] OTHER -> c

Upper(cs) == [j \in DOMAIN cs |-> UpperChar(cs[j])]

\* int(val) of a float given in tenths: truncation toward zero.
IntOf(t) == IF t >= 0 THEN t \div 10 ELSE -((-t) \div 10)

\* _normalize_signal
NormalizeSignal(val) ==
    IF val.kind = "nan" THEN "HOLD"
    ELSE IF val.kind = "inf" THEN "HOLD"
    ELSE IF val.kind = "num" THEN
        (IF IntOf(val.v10) = 1 THEN "BUY"
         ELSE IF IntOf(val.v10) = -1 THEN "SELL"
         ELSE "HOLD")
    ELSE LET s == Upper(Strip(val.s))
         IN IF s \in {<<"B", "U", "Y">>, <<"B">>, <<"1">>} THEN "BUY"
            ELSE IF s \in {<<"S", "E", "L", "L">>, <<"S">>, <<"-", "1">>} THEN "SELL"
            ELSE "HOLD"

\* pd.to_numeric(col, errors = "coerce") on one cell.
ToNumeric(c) == IF c.kind = "num" THEN Num(c.v) ELSE NaN

\* df.iloc[j] after the numeric coercion; a column the frame lacks reads as None.
CoerceRow(f, raw) ==
    [Open |-> IF "Open" \in f.cols THEN ToNumeric(raw.Open) ELSE NaN,
     Close |-> IF "Close" \in f.cols THEN ToNumeric(raw.Close) ELSE NaN]

NoRow == [Open |-> NaN, Close |-> NaN]

\* The summary of a run without completed trades.
ZeroSummary(fc, rt) ==
    [FinalCapital |-> fc, TotalTrades |-> 0, Wins |-> 0, WinRatio |-> Num(0),
     TotalPnL |-> Num(0), Return |-> rt]

\* round(((capital - initial_capital) / initial_capital) * 100, 2)
ReturnPct(cap, ic) == Round2(Mul(Div(Sub(cap, Num(ic)), Num(ic)), Num(100)))

\* ------------------------------------------------------------ state ----
VARIABLES
    entry,            \* the function called: "backtest" or "backtest_all"
    feed,             \* "example": the frame is ExampleFrame/ExampleBars; "any": drawn
    initial_capital,  \* argument initial_capital
    months,           \* argument months of backtest_all
    data_keys,        \* the keys of data_dict, in iteration order
    pc,               \* position in the code
    k,                \* number of items of data_dict.items() consumed
    ticker,           \* backtest_all: loop variable
    df_local,         \* backtest_all: df_local, from line 229 to the first pass of backtest's loop
                      \* (it is not read after line 237 and rebound by the next pass)
    log,              \* backtest_all: the warning or error logged for a ticker
    results,          \* backtest_all: results
    summaries,        \* backtest_all: summaries
    df,               \* backtest: df after _ensure_datetime_index
    i,                \* backtest: next value of the loop variable
    sig,              \* backtest: sig
    next_row,         \* backtest: next_row
    exec_price,       \* backtest: exec_price
    exec_date,        \* backtest: exec_date
    trades,           \* backtest: trades
    in_position,      \* backtest: in_position
    entry_price,      \* backtest: entry_price
    entry_qty,        \* backtest: entry_qty
    capital,          \* backtest: capital
    ret,              \* the value backtest returned: [trades_df, summary]
    seen              \* history: the normalized signals read so far in this run of backtest

inputs == <<entry, feed, initial_capital, months, data_keys>>

orch == <<k, ticker, df_local, log, results, summaries>>

frame == <<df, i, sig, next_row, exec_price, exec_date>>

book == <<trades, in_position, entry_price, entry_qty, capital>>

vars == <<inputs, pc, orch, frame, book, ret, seen>>

EmptyMap == [t \in {} |-> << >>]

\* m[key] = v on a dict
Put(m, key, v) == [t \in DOMAIN m \cup {key} |-> IF t = key THEN v ELSE m[t]]

NoFrame == [idx |-> << >>, cols |-> {}, dup |-> FALSE]

NoRet == [trades_df |-> << >>, summary |-> ZeroSummary(NaN, NaN), set |-> FALSE]

Init ==
    /\ \/ /\ entry = "backtest"
          /\ feed = "example"
          /\ initial_capital = 1000
          /\ months = 1
          /\ data_keys = << >>
       \/ /\ entry = "backtest"
          /\ feed = "any"
          /\ initial_capital = INITIAL_CAPITAL
          /\ months = 1
          /\ data_keys = << >>
       \/ /\ entry = "backtest_all"
          /\ feed = "any"
          /\ initial_capital = INITIAL_CAPITAL
          /\ months \in 1..MaxMonths
          /\ data_keys \in {SubSeq(Tickers, 1, n) : n \in 0..MaxTickers}
    /\ pc = "main"
    /\ k = 0
    /\ ticker = ""
    /\ df_local = NoFrame
    /\ log = EmptyMap
    /\ results = EmptyMap
    /\ summaries = EmptyMap
    /\ df = NoFrame
    /\ i = 0
    /\ sig = ""
    /\ next_row = NoRow
    /\ exec_price = NaN
    /\ exec_date = NaT
    /\ trades = << >>
    /\ in_position = FALSE
    /\ entry_price = NaN
    /\ entry_qty = NaN
    /\ capital = NaN
    /\ ret = NoRet
    /\ seen = {}

\* ---------------------------------------------------- backtest() -------
\* Mutant of Insufficient: one bar is enough.
InsufficientWhenEmpty(f) == Len(f.idx) < 1 \/ "Signal" \notin f.cols

\* if len(df) < 2 or "Signal" not in df.columns
Insufficient(f) == Len(f.idx) < 2 \/ "Signal" \notin f.cols

\* Mutant of HasPrice: a column that exists counts as a price, NaN or not.
HasPriceColumn(f, row, col) == col \in f.cols

\* "<col>" in df.columns and not pd.isna(row.get("<col>"))
HasPrice(f, row, col) == col \in f.cols /\ ~IsNaN(row[col])

\* Mutant of ExecPrice: the Close is preferred to the Open.
ExecPriceCloseFirst(f, row) ==
    IF HasPrice(f, row, "Close") THEN row.Close
    ELSE IF HasPrice(f, row, "Open") THEN row.Open
    ELSE NaN

\* exec_price of one iteration: next bar's Open, else its Close, else None.
ExecPrice(f, row) ==
    IF HasPrice(f, row, "Open") THEN row.Open
    ELSE IF HasPrice(f, row, "Close") THEN row.Close
    ELSE NaN

\* Mutant of ExecDate: the execution is dated with the bar of the signal.
ExecDateSameBar(f, j) == f.idx[j + 1]

\* exec_date = idx[i + 1]
ExecDate(f, j) == f.idx[j + 2]

\* entry_qty = capital / entry_price if entry_price > 0 else 0
EntryQty(cap, price) == IF Gt0(price) THEN Div(cap, price) ELSE Num(0)

\* Mutants of BuyAccepted: a BUY is taken whatever the position; anything
\* but a SELL opens a position while flat.
BuyAlways(s, pos) == s = "BUY"

BuyUnlessSell(s, pos) == s # "SELL" /\ ~pos

\* BUY accepted / SELL accepted
BuyAccepted(s, pos) == s = "BUY" /\ ~pos

\* Mutant of SellAccepted: a SELL is taken whatever the position.
SellAlways(s, pos) == s = "SELL"

SellAccepted(s, pos) == s = "SELL" /\ pos

OpenTrade(date, price, qty) ==
    [EntryDate |-> date, EntryPrice |-> price, ExitDate |-> NaT, ExitPrice |-> NaN,
     Qty |-> qty, PnL |-> NaN]

\* Mutant of PnLOf: the price difference of one unit.
PnLPerUnit(exit, ep, qty) == Sub(exit, ep)

\* pnl = (exit_price - entry_price) * entry_qty
PnLOf(exit, ep, qty) == Mul(Sub(exit, ep), qty)

\* Mutant of CapitalAfterClose: the proceeds are added to the capital.
CapitalAccumulated(cap, qty, exit) == Add(cap, Mul(qty, exit))

\* capital = entry_qty * exit_price
CapitalAfterClose(cap, qty, exit) == Mul(qty, exit)

\* trades[-1].update({...})
CloseLast(ts, date, price, pnl) ==
    [ts EXCEPT ![Len(ts)] = [@ EXCEPT !.ExitDate = date, !.ExitPrice = price, !.PnL = pnl]]

\* Mutant of LastPrice: the Open is preferred to the Close.
LastPriceOpenFirst(f, row) ==
    IF HasPrice(f, row, "Open") THEN row.Open
    ELSE IF HasPrice(f, row, "Close") THEN row.Close
    ELSE NaN

\* last_price of the force-close: last bar's Close, else its Open, else None.
LastPrice(f, row) ==
    IF HasPrice(f, row, "Close") THEN row.Close
    ELSE IF HasPrice(f, row, "Open") THEN row.Open
    ELSE NaN

\* Mutant of LastDate: the first timestamp instead of the last.
FirstDate(f) == f.idx[1]

\* last_date = idx[-1]
LastDate(f) == f.idx[Len(f.idx)]

IsCompleted(t) == t.ExitDate # NaT

\* Mutant of Completed: open trades are not dropped.
NotFiltered(ts) ==
    [j \in DOMAIN ts |-> IF IsNaN(ts[j].PnL) THEN [ts[j] EXCEPT !.PnL = Num(0)] ELSE ts[j]]

\* trades_df.dropna(subset = ["Exit Date"]), P&L filled with 0.0
Completed(ts) ==
    LET kept == SelectSeq(ts, IsCompleted)
    IN [j \in DOMAIN kept |-> IF IsNaN(kept[j].PnL) THEN [kept[j] EXCEPT !.PnL = Num(0)]
                                                     ELSE kept[j]]

\* Mutant of IsWin: a trade that loses nothing is a win.
IsNotLoss(t) == ~IsNaN(t.PnL) /\ t.PnL.n >= 0

IsWin(t) == Gt0(t.PnL)

\* wins = (completed["P&L"] > 0).sum()
WinsOf(done) == Len(SelectSeq(done, IsWin))

\* the trades frame backtest returns
ReturnedTrades(ts) == IF ts = << >> THEN << >> ELSE Completed(ts)

\* the summary dict backtest returns
SummaryOf(ts, cap, ic) ==
    LET done == Completed(ts)
    IN IF ts = << >> \/ done = << >>
       THEN ZeroSummary(cap, ReturnPct(cap, ic))
       ELSE [FinalCapital |-> cap,
             TotalTrades |-> Len(done),
             Wins |-> WinsOf(done),
             WinRatio |-> IF Len(done) > 0
                          THEN Round2(Mul(Rat(WinsOf(done), Len(done)), Num(100)))
                          ELSE Num(0),
             TotalPnL |-> SumPnL(done),
             Return |-> ReturnPct(cap, ic)]

\* The zero-valued summary of the early return and of backtest_all's substitutes.
FailSummary(ic) == ZeroSummary(Num(ic), Num(0))

\* The cells the frame holds at row j (0-based), drawn when first read.
SignalsAt(j) == IF feed = "example" THEN {ExampleBars[j + 1].Signal} ELSE RawSignals

RowsAt(j) ==
    IF feed = "example"
    THEN {[Open |-> ExampleBars[j + 1].Open, Close |-> ExampleBars[j + 1].Close]}
    ELSE RawRows

FramesIn == IF feed = "example" THEN {ExampleFrame} ELSE Frames

\* The locals of backtest cease to exist when it returns or raises.
PopFrame ==
    /\ df' = NoFrame
    /\ i' = 0
    /\ sig' = ""
    /\ next_row' = NoRow
    /\ exec_price' = NaN
    /\ exec_date' = NaT
    /\ trades' = << >>
    /\ in_position' = FALSE
    /\ entry_price' = NaN
    /\ entry_qty' = NaN
    /\ capital' = NaN

\* backtest returns (tdf, summ): to the caller of a direct call (ret), or to
\* line 252 of backtest_all, which stores both under the ticker and goes on.
Deliver(tk, tdf, summ) ==
    /\ IF entry = "backtest"
       THEN /\ ret' = [trades_df |-> tdf, summary |-> summ, set |-> TRUE]
            /\ pc' = "done"
            /\ UNCHANGED <<k, results, summaries>>
       ELSE /\ UNCHANGED ret
            /\ results' = Put(results, tk, tdf)
            /\ summaries' = Put(summaries, tk, summ)
            /\ k' = k + 1
            /\ pc' = "all_for"

\* backtest(f0, initial_capital) is entered: lines 72-97.
Enter(f0, tk) ==
    LET f == EnsureDatetimeIndex(f0)
    IN /\ seen' = {}
       /\ IF Insufficient(f)
          THEN /\ Deliver(tk, << >>, FailSummary(initial_capital))
               /\ UNCHANGED <<frame, book>>
          ELSE /\ df' = f
               /\ i' = 0
               /\ trades' = << >>
               /\ in_position' = FALSE
               /\ entry_price' = NaN
               /\ entry_qty' = NaN
               /\ capital' = Num(initial_capital)
               /\ pc' = "loop"
               /\ UNCHANGED <<sig, next_row, exec_price, exec_date, k, results, summaries, ret>>

CallBacktest ==
    /\ pc = "main"
    /\ entry = "backtest"
    /\ \E f0 \in FramesIn : Enter(f0, "")
    /\ UNCHANGED <<inputs, ticker, df_local, log>>

\* One iteration of the loop of lines 100-138, on a frame whose Signal
\* column is unique.
LoopStep ==
    /\ pc = "loop"
    /\ ~df.dup
    /\ i < Len(df.idx) - 1
    /\ \E rawsig \in SignalsAt(i), rawrow \in RowsAt(i + 1) :
        LET s == NormalizeSignal(rawsig)
            row == CoerceRow(df, rawrow)
            price == ExecPrice(df, row)
            date == ExecDate(df, i)
        IN /\ sig' = s
           /\ next_row' = row
           /\ exec_price' = price
           /\ seen' = seen \cup {s}
           /\ i' = i + 1
           /\ IF IsNaN(price)
              THEN UNCHANGED <<exec_date, book>>
              ELSE /\ exec_date' = date
                   /\ IF BuyAccepted(s, in_position)
                      THEN /\ entry_price' = price
                           /\ entry_qty' = EntryQty(capital, price)
                           /\ in_position' = TRUE
                           /\ trades' = Append(trades,
                                  OpenTrade(date, price, EntryQty(capital, price)))
                           /\ UNCHANGED capital
                      ELSE IF SellAccepted(s, in_position)
                      THEN /\ capital' = CapitalAfterClose(capital, entry_qty, price)
                           /\ trades' = CloseLast(trades, date, price,
                                  PnLOf(price, entry_price, entry_qty))
                           /\ in_position' = FALSE
                           /\ entry_price' = NaN
                           /\ entry_qty' = NaN
                      ELSE UNCHANGED book
    /\ df_local' = NoFrame
    /\ UNCHANGED <<inputs, pc, k, ticker, log, results, summaries, df, ret>>

\* The frame has two "Signal" columns: df["Signal"].iloc[0] is a Series and
\* pd.isna(val) in _normalize_signal raises ValueError (line 101).  A direct
\* caller sees the exception; backtest_all catches it (lines 258-268).
LoopRaise ==
    /\ pc = "loop"
    /\ df.dup
    /\ i < Len(df.idx) - 1
    /\ PopFrame
    /\ IF entry = "backtest"
       THEN /\ pc' = "raised"
            /\ UNCHANGED <<k, log, results, summaries>>
       ELSE /\ log' = Put(log, ticker, "error")
            /\ results' = Put(results, ticker, << >>)
            /\ summaries' = Put(summaries, ticker, FailSummary(initial_capital))
            /\ k' = k + 1
            /\ pc' = "all_for"
    /\ df_local' = NoFrame
    /\ UNCHANGED <<inputs, ticker, ret, seen>>

\* Lines 140-158: the loop is over; an open position is closed at the last
\* bar when that bar has a price.
ForceClose ==
    /\ pc = "loop"
    /\ i = Len(df.idx) - 1
    /\ pc' = "summary"
    /\ IF in_position
       THEN /\ in_position' = FALSE
            /\ IF ~IsNaN(LastPrice(df, next_row))
               THEN /\ capital' = CapitalAfterClose(capital, entry_qty, LastPrice(df, next_row))
                    /\ trades' = CloseLast(trades, LastDate(df), LastPrice(df, next_row),
                           PnLOf(LastPrice(df, next_row), entry_price, entry_qty))
               ELSE UNCHANGED <<capital, trades>>
            /\ UNCHANGED <<entry_price, entry_qty>>
       ELSE UNCHANGED book
    /\ UNCHANGED <<inputs, orch, frame, ret, seen>>

\* Lines 160-209: the summary is built and backtest returns.
Summarize ==
    /\ pc = "summary"
    /\ Deliver(ticker, ReturnedTrades(trades), SummaryOf(trades, capital, initial_capital))
    /\ PopFrame
    /\ df_local' = NoFrame
    /\ UNCHANGED <<inputs, ticker, log, seen>>

\* ------------------------------------------------- backtest_all() ------
\* last_date = df_local.index.max()
WindowEnd(f) == SetMax(Range(f.idx))

\* Mutant of WindowStart: the window is twice as long.
WindowStartDoubled(f, m) == WindowEnd(f) - 2 * m

\* start_date = last_date - pd.DateOffset(months = months)
WindowStart(f, m) == WindowEnd(f) - m

\* a label of .loc[lo:hi]: both ends are included
InWindow(d, lo, hi) == lo <= d /\ d <= hi

\* df_local.loc[start_date:last_date]
SliceRows(f, lo, hi) ==
    [f EXCEPT !.idx = LET Keep(d) == InWindow(d, lo, hi) IN SelectSeq(f.idx, Keep)]

\* if len(df_local) == 0: ... continue
SkipsTicker(f) == Len(f.idx) = 0

\* if df_slice.empty or "Signal" not in df_slice.columns
NoValidSlice(f) == Len(f.idx) = 0 \/ "Signal" \notin f.cols

\* Lines 223-224.
CallBacktestAll ==
    /\ pc = "main"
    /\ entry = "backtest_all"
    /\ results' = EmptyMap
    /\ summaries' = EmptyMap
    /\ pc' = "all_for"
    /\ UNCHANGED <<inputs, k, ticker, df_local, log, frame, book, ret, seen>>

\* One pass of "for ticker, df in data_dict.items()" up to the call of
\* backtest (lines 226-252); the frame of the item is drawn here.
ForTicker ==
    /\ pc = "all_for"
    /\ k < Len(data_keys)
    /\ \E f0 \in Frames :
        LET tk == data_keys[k + 1]
            loc == EnsureDatetimeIndex(f0)
            df_slice == SliceRows(loc, WindowStart(loc, months), WindowEnd(loc))
        IN /\ ticker' = tk
           /\ IF SkipsTicker(loc)
              THEN /\ log' = Put(log, tk, "no_data")
                   /\ k' = k + 1
                   /\ df_local' = NoFrame
                   /\ UNCHANGED <<pc, results, summaries, frame, book, ret, seen>>
              ELSE IF NoValidSlice(df_slice)
              THEN /\ log' = Put(log, tk, "no_slice")
                   /\ results' = Put(results, tk, << >>)
                   /\ summaries' = Put(summaries, tk, FailSummary(initial_capital))
                   /\ k' = k + 1
                   /\ df_local' = NoFrame
                   /\ UNCHANGED <<pc, frame, book, ret, seen>>
              ELSE /\ df_local' = (IF Insufficient(df_slice) THEN NoFrame ELSE loc)
                   /\ UNCHANGED log
                   /\ Enter(df_slice, tk)
    /\ UNCHANGED inputs

\* Line 270.
ReturnAll ==
    /\ pc = "all_for"
    /\ k = Len(data_keys)
    /\ pc' = "done"
    /\ UNCHANGED <<inputs, orch, frame, book, ret, seen>>

Next ==
    \/ CallBacktest
    \/ LoopStep
    \/ LoopRaise
    \/ ForceClose
    \/ Summarize
    \/ CallBacktestAll
    \/ ForTicker
    \/ ReturnAll

Spec == Init /\ [][Next]_vars

\* ----------------------------------------------------------- claims ----
Keys == Range(data_keys)

\* C1 (orchestrator completeness): when backtest_all has returned, results and
\* summaries each have exactly the tickers of data_dict as keys, whatever
\* the data of each ticker was.
C1_BothMappingsComplete ==
    (entry = "backtest_all" /\ pc = "done") =>
        (DOMAIN results = Keys /\ DOMAIN summaries = Keys)

ExampleRan == entry = "backtest" /\ feed = "example" /\ pc = "done" /\ ret.set

\* C2 as stated: the example run returns one trade entered at d1 at 11 with
\* quantity 1000/11 and exited at d2 at 13, P&L 2000/11, Final Capital
\* 13000/11 and Return 18.18 %.
C2_ExampleAsStated ==
    ExampleRan =>
        /\ ret.trades_df = << [EntryDate |-> 2, EntryPrice |-> Num(11), ExitDate |-> 3,
                                ExitPrice |-> Num(13), Qty |-> Rat(1000, 11),
                                PnL |-> Rat(2000, 11)] >>
        /\ ret.summary.FinalCapital = Rat(13000, 11)
        /\ ret.summary.Return = Rat(1818, 100)

\* C2 amended: the example run returns one trade entered at d1 at 11 with
\* quantity 1000/11 and exited at d3 at 15 (the bar after the SELL of d2),
\* P&L 4000/11, Final Capital 15000/11 and Return 36.36 %.
C2_ExampleAsRun ==
    ExampleRan =>
        /\ ret.trades_df = << [EntryDate |-> 2, EntryPrice |-> Num(11), ExitDate |-> 4,
                                ExitPrice |-> Num(15), Qty |-> Rat(1000, 11),
                                PnL |-> Rat(4000, 11)] >>
        /\ ret.summary.FinalCapital = Rat(15000, 11)
        /\ ret.summary.TotalTrades = 1
        /\ ret.summary.TotalPnL = Rat(4000, 11)
        /\ ret.summary.Return = Rat(3636, 100)

C2_Witness == ExampleRan /\ Len(ret.trades_df) = 1

\* A loop iteration of backtest was taken; it opened / closed a trade.
StepTaken == pc = "loop" /\ pc' = "loop" /\ i' = i + 1

Entered == StepTaken /\ Len(trades') = Len(trades) + 1

Exited == StepTaken /\ Len(trades') = Len(trades) /\ trades' # trades

\* The price of a bar: its Open, or its Close when Open is missing.
BarPrice(row) == IF ~IsNaN(row.Open) THEN row.Open ELSE row.Close

\* C3 (next-bar execution): in the iteration that reads the signal of bar i
\* (0-based), an entry happens only on BUY and an exit only on SELL, and the
\* trade is dated with the timestamp of bar i + 1 and priced with the price
\* of bar i + 1 (the row read in that iteration), never with the timestamp
\* of bar i.
C3_NextBarExecution ==
    [][ /\ Entered =>
             /\ sig' = "BUY"
             /\ Last(trades').EntryDate = df.idx[i + 2]
             /\ Last(trades').EntryDate # df.idx[i + 1]
             /\ Last(trades').EntryPrice = BarPrice(next_row')
        /\ Exited =>
             /\ sig' = "SELL"
             /\ Last(trades').ExitDate = df.idx[i + 2]
             /\ Last(trades').ExitDate # df.idx[i + 1]
             /\ Last(trades').ExitPrice = BarPrice(next_row') ]_vars

C3_Witness ==
    /\ pc = "loop"
    /\ sig = "SELL"
    /\ Len(trades) = 1
    /\ IsCompleted(trades[1])
    /\ trades[1].ExitPrice # trades[1].EntryPrice

C4_AtMostOneOpen ==
    /\ \A j \in 1..Len(trades) : ~IsCompleted(trades[j]) => j = Len(trades)
    /\ \A j \in 2..Len(trades) : trades[j].EntryDate > trades[j - 1].ExitDate
    /\ in_position => (trades # << >> /\ ~IsCompleted(Last(trades)))

C4_AppendOnlyWhileFlat ==
    Len(trades') > Len(trades) =>
        /\ ~in_position
        /\ Len(trades') = Len(trades) + 1
        /\ \A j \in 1..Len(trades) : IsCompleted(trades[j])

\* C4 (single position): at every step only the last trade of the list can
\* be open, each trade is entered on a bar strictly later than the bar the
\* previous trade was exited on, and a trade is appended only while flat,
\* when every earlier trade is closed.
C4_SinglePosition == []C4_AtMostOneOpen /\ [][C4_AppendOnlyWhileFlat]_vars

C4_Witness ==
    /\ pc = "loop"
    /\ in_position
    /\ Len(trades) = 2
    /\ IsCompleted(trades[1])

ClosedSoFar == SelectSeq(trades, IsCompleted)

C5_CapitalOfLastClose ==
    pc \in {"loop", "summary"} =>
        capital = IF ClosedSoFar = << >>
                  THEN Num(initial_capital)
                  ELSE Mul(Last(ClosedSoFar).Qty, Last(ClosedSoFar).ExitPrice)

C5_ChangesOnlyAtClose ==
    (pc = "loop" /\ pc' \in {"loop", "summary"} /\ capital' # capital) =>
        /\ in_position
        /\ ~in_position'
        /\ Len(trades') = Len(trades)
        /\ ~IsCompleted(Last(trades))
        /\ IsCompleted(Last(trades'))

\* C5 (capital conservation): during a run capital is initial_capital until
\* the first close and afterwards the quantity times the exit price of the
\* most recently closed trade; it changes only in a step that closes the
\* open trade (an accepted SELL or the force-close).
C5_CapitalConservation == []C5_CapitalOfLastClose /\ [][C5_ChangesOnlyAtClose]_vars

C5_Witness ==
    /\ pc = "summary"
    /\ Len(trades) = 2
    /\ IsCompleted(trades[2])
    /\ capital # Num(initial_capital)
    /\ capital # Mul(trades[1].Qty, trades[1].ExitPrice)

BacktestReturned == entry = "backtest" /\ pc = "done" /\ ret.set

\* C6 as stated: the returned trades are in order of entry and every one of
\* them has an exit date strictly later than its entry date.
C6_ExitStrictlyAfterEntry ==
    BacktestReturned =>
        /\ \A j \in 2..Len(ret.trades_df) :
               ret.trades_df[j].EntryDate > ret.trades_df[j - 1].EntryDate
        /\ \A j \in 1..Len(ret.trades_df) :
               ret.trades_df[j].ExitDate > ret.trades_df[j].EntryDate

\* C6 amended: the returned trades are in order of entry and every one of
\* them has an exit date later than or equal to its entry date; the two are
\* equal only for the last trade, when it was entered on the final bar of
\* the series (and so force-closed on that same bar).
C6_ExitNotBeforeEntry ==
    [][ (entry = "backtest" /\ pc = "summary" /\ pc' = "done") =>
            /\ \A j \in 2..Len(ret'.trades_df) :
                   ret'.trades_df[j].EntryDate > ret'.trades_df[j - 1].EntryDate
            /\ \A j \in 1..Len(ret'.trades_df) :
                   /\ ret'.trades_df[j].ExitDate >= ret'.trades_df[j].EntryDate
                   /\ ret'.trades_df[j].ExitDate = ret'.trades_df[j].EntryDate =>
                          /\ j = Len(ret'.trades_df)
                          /\ ret'.trades_df[j].EntryDate = df.idx[Len(df.idx)] ]_vars

C6_Witness ==
    /\ BacktestReturned
    /\ Len(ret.trades_df) = 2
    /\ ret.trades_df[1].ExitDate > ret.trades_df[1].EntryDate
    /\ ret.trades_df[2].ExitDate = ret.trades_df[2].EntryDate

\* The series has ended with a position that could not be closed.
LeftOpen ==
    /\ entry = "backtest"
    /\ pc = "summary"
    /\ trades # << >>
    /\ ~IsCompleted(Last(trades))

ClosedBefore == SubSeq(trades, 1, Len(trades) - 1)

PositivePnL(r) == {j \in DOMAIN r : ~IsNaN(r[j].PnL) /\ r[j].PnL.n > 0}

StatsWithoutOpenTrade ==
    /\ ret'.summary.TotalTrades = Len(trades) - 1
    /\ ret'.summary.Wins = Cardinality(PositivePnL(ClosedBefore))
    /\ ret'.summary.TotalPnL = SumPnL(ClosedBefore)
    /\ ret'.summary.WinRatio =
           (IF Len(trades) = 1 THEN Num(0)
            ELSE Round2(Rat(100 * Cardinality(PositivePnL(ClosedBefore)), Len(trades) - 1)))

OpenRecord ==
    /\ ~IsNaN(Last(trades).EntryPrice)
    /\ ~IsNaN(Last(trades).Qty)
    /\ Last(trades).EntryDate # NaT
    /\ Last(trades).ExitDate = NaT
    /\ IsNaN(Last(trades).ExitPrice)
    /\ IsNaN(Last(trades).PnL)

C8_FailedTickerGetsZeroEntries ==
    (entry = "backtest_all" /\ pc \in {"all_for", "done"}) =>
        \A t \in DOMAIN log :
            /\ t \in DOMAIN results
            /\ t \in DOMAIN summaries
            /\ results[t] = << >>
            /\ summaries[t] = [FinalCapital |-> Num(initial_capital), TotalTrades |-> 0,
                               Wins |-> 0, WinRatio |-> Num(0), TotalPnL |-> Num(0),
                               Return |-> Num(0)]

\* C9 (zero-trade case): a direct run of backtest in which no signal read
\* normalized to BUY returns an empty trade list and a summary with
\* Total Trades = 0 and Final Capital = initial_capital.
C9_NoBuyNoTrade ==
    (BacktestReturned /\ "BUY" \notin seen) =>
        /\ ret.trades_df = << >>
        /\ ret.summary.TotalTrades = 0
        /\ ret.summary.FinalCapital = Num(initial_capital)

C9_Witness == BacktestReturned /\ seen = {"SELL", "HOLD"} /\ ret.trades_df = << >>

WinsConsistent(sm, r) ==
    /\ 0 <= sm.Wins
    /\ sm.Wins <= sm.TotalTrades
    /\ sm.Wins = Cardinality(PositivePnL(r))
    /\ \A j \in DOMAIN r : r[j].ExitDate # NaT
    /\ sm.TotalTrades = 0 => sm.WinRatio = Num(0)

\* C10 (win count consistency): in the summary a direct call of backtest
\* returned and in every summary backtest_all has stored, 0 <= Wins <=
\* Total Trades, Wins is the number of returned (closed) trades with P&L
\* strictly greater than 0, and Win Ratio is 0 when Total Trades is 0.
C10_WinCountConsistent ==
    /\ ret.set => WinsConsistent(ret.summary, ret.trades_df)
    /\ \A t \in DOMAIN summaries :
           t \in DOMAIN results /\ WinsConsistent(summaries[t], results[t])

C10_Witness ==
    /\ BacktestReturned
    /\ ret.summary.TotalTrades = 2
    /\ ret.summary.Wins = 1
    /\ \E j \in 1..2 : ret.trades_df[j].PnL = Num(0)

\* No iteration so far found a price on its execution bar.
NothingExecutable == pc \in {"loop", "summary"} /\ exec_date = NaT

C11_NoPriceNoTrade ==
    NothingExecutable =>
        /\ trades = << >>
        /\ ~in_position
        /\ capital = Num(initial_capital)

C11_OpenElseCloseElseSkip ==
    /\ StepTaken =>
           /\ ("Open" \notin df.cols) => IsNaN(next_row'.Open)
           /\ ("Close" \notin df.cols) => IsNaN(next_row'.Close)
           /\ exec_price' = (IF ~IsNaN(next_row'.Open) THEN next_row'.Open
                             ELSE IF ~IsNaN(next_row'.Close) THEN next_row'.Close
                             ELSE NaN)
           /\ IsNaN(exec_price') =>
                  /\ trades' = trades
                  /\ in_position' = in_position
                  /\ entry_price' = entry_price
                  /\ entry_qty' = entry_qty
                  /\ capital' = capital
           /\ Entered => (sig' = "BUY" /\ Last(trades').EntryPrice = exec_price')
           /\ Exited => (sig' = "SELL" /\ Last(trades').ExitPrice = exec_price')
    /\ (entry = "backtest" /\ NothingExecutable /\ pc = "summary") =>
           /\ ret'.trades_df = << >>
           /\ ret'.summary.TotalTrades = 0
           /\ ret'.summary.FinalCapital = Num(initial_capital)

\* C11 (execution price): in every iteration the execution price is the
\* Open of bar i + 1 when present, else its Close when present; when both
\* are missing (or their columns do not exist) the iteration changes neither
\* position, capital nor trade list and the scan goes on with i + 1; a trade
\* is opened or closed only by the signal read in the same iteration, so a
\* dropped decision is not retried; a run in which no execution bar had a
\* price has no trade and returns an empty list with Total Trades = 0.
C11_ExecutionPrice == []C11_NoPriceNoTrade /\ [][C11_OpenElseCloseElseSkip]_vars

C11_Witness ==
    /\ pc = "loop"
    /\ i = 2
    /\ seen = {"BUY", "HOLD"}
    /\ sig = "HOLD"
    /\ "Open" \notin df.cols
    /\ ~IsNaN(exec_price)
    /\ exec_price = next_row.Close
    /\ trades = << >>

\* The loop has ended with a position open; next_row is df.iloc[-1].
ForceClosing == pc = "loop" /\ pc' = "summary" /\ in_position

\* The capital before the open (last) trade was entered.
CapitalBeforeOpen ==
    IF Len(trades) = 1 THEN Num(initial_capital)
    ELSE Mul(trades[Len(trades) - 1].Qty, trades[Len(trades) - 1].ExitPrice)

C12_CloseElseOpenElseLeft ==
    ForceClosing =>
        LET price == IF ~IsNaN(next_row.Close) THEN next_row.Close ELSE next_row.Open
            open == Last(trades)
        IN /\ ~in_position'
           /\ Len(trades') = Len(trades)
           /\ \A j \in 1..(Len(trades) - 1) : trades'[j] = trades[j]
           /\ ~IsCompleted(open)
           /\ ("Close" \notin df.cols) => IsNaN(next_row.Close)
           /\ ("Open" \notin df.cols) => IsNaN(next_row.Open)
           /\ IF ~IsNaN(price)
              THEN /\ Last(trades') =
                          [EntryDate |-> open.EntryDate, EntryPrice |-> open.EntryPrice,
                           ExitDate |-> df.idx[Len(df.idx)], ExitPrice |-> price,
                           Qty |-> open.Qty,
                           PnL |-> Mul(Sub(price, open.EntryPrice), open.Qty)]
                   /\ capital' = Mul(open.Qty, price)
              ELSE /\ trades' = trades
                   /\ open.ExitDate = NaT
                   /\ IsNaN(open.ExitPrice)
                   /\ IsNaN(open.PnL)
                   /\ capital' = capital
                   /\ capital = CapitalBeforeOpen

Ignored ==
    /\ StepTaken
    /\ \/ sig' = "HOLD"
       \/ sig' = "BUY" /\ in_position
       \/ sig' = "SELL" /\ ~in_position

C13_IgnoredChangesNothing ==
    Ignored =>
        /\ in_position' = in_position
        /\ entry_price' = entry_price
        /\ entry_qty' = entry_qty
        /\ capital' = capital
        /\ trades' = trades

C13_TradeOnlyByAcceptedBuy ==
    (pc = "loop" /\ pc' \in {"loop", "summary"} /\ Len(trades') # Len(trades)) =>
        /\ StepTaken
        /\ sig' = "BUY"
        /\ ~in_position
        /\ in_position'
        /\ ~IsNaN(exec_price')
        /\ Len(trades') = Len(trades) + 1

C13_NoShortNoStack ==
    pc \in {"loop", "summary"} =>
        /\ Len(trades) <= i
        /\ \A j \in 1..Len(trades) : ~IsNaN(trades[j].Qty) /\ trades[j].Qty.n >= 0
        /\ Cardinality({j \in 1..Len(trades) : ~IsCompleted(trades[j])}) <= 1
        /\ in_position => (trades # << >> /\ entry_qty = Last(trades).Qty
                                          /\ entry_price = Last(trades).EntryPrice)

ZeroActivity(tdf, summ) ==
    /\ tdf = << >>
    /\ summ = [FinalCapital |-> Num(initial_capital), TotalTrades |-> 0, Wins |-> 0,
               WinRatio |-> Num(0), TotalPnL |-> Num(0), Return |-> Num(0)]

\* backtest is called and returns at line 76, before its loop.
EarlyReturn == entry = "backtest" /\ pc = "main" /\ pc' = "done"

EarlyReturnInAll ==
    entry = "backtest_all" /\ pc = "all_for" /\ pc' = "all_for" /\ k' = k + 1 /\ log' = log

C14_ZeroActivityOrLoop ==
    /\ pc = "main" => pc' # "raised"
    /\ EarlyReturn => (ret'.set /\ ZeroActivity(ret'.trades_df, ret'.summary))
    /\ EarlyReturnInAll =>
           /\ ticker' \in DOMAIN results'
           /\ ticker' \in DOMAIN summaries'
           /\ ZeroActivity(results'[ticker'], summaries'[ticker'])
    /\ (pc # "loop" /\ pc' = "loop") => (Len(df'.idx) >= 2 /\ "Signal" \in df'.cols)

\* C14 (insufficient data): a call of backtest enters its loop only with a
\* series of at least 2 bars that has a Signal column; with any other
\* series it raises nothing and returns an empty trade list and a summary
\* with Total Trades = 0, Wins = 0, Win Ratio = 0, Total P&L = 0, Return = 0
\* and Final Capital = initial_capital.
C14_InsufficientData == [][C14_ZeroActivityOrLoop]_vars

C14_Witness ==
    /\ BacktestReturned
    /\ seen = {}
    /\ ZeroActivity(ret.trades_df, ret.summary)

\* backtest_all hands the slice of the current ticker to backtest, which
\* enters its loop: df_local' is the ticker's whole series, df' the slice.
SliceSimulated == entry = "backtest_all" /\ pc = "all_for" /\ pc' = "loop"

C15_WindowOfOwnSeries ==
    SliceSimulated =>
        LET last == SetMax(Range(df_local'.idx))
        IN /\ Range(df'.idx) =
                  {d \in Range(df_local'.idx) : last - months <= d /\ d <= last}
           /\ \A a, b \in 1..Len(df'.idx) : a < b => df'.idx[a] < df'.idx[b]
           /\ df'.idx[Len(df'.idx)] = last
           /\ df'.cols = df_local'.cols
           /\ i' = 0
           /\ trades' = << >>
           /\ ~in_position'
           /\ capital' = Num(initial_capital)
           /\ seen' = {}

C15_TradesInsideWindow ==
    (entry = "backtest_all" /\ pc \in {"loop", "summary"}) =>
        \A j \in 1..Len(trades) :
            /\ trades[j].EntryDate \in Range(df.idx)
            /\ trades[j].EntryDate >= df.idx[Len(df.idx)] - months
            /\ IsCompleted(trades[j]) => trades[j].ExitDate \in Range(df.idx)

\* C15 (trailing window): the series backtest_all simulates for a ticker is
\* exactly the bars of that ticker's own series with last - months <=
\* timestamp <= last, both ends included, last being the latest timestamp
\* of that series; the simulation starts flat with initial_capital and no
\* trade, so bars before the window have no effect, every trade lies inside
\* the window, and the window is a function of the ticker's own series and
\* months only.
C15_TrailingWindow == []C15_TradesInsideWindow /\ [][C15_WindowOfOwnSeries]_vars

C15_Witness ==
    /\ entry = "backtest_all"
    /\ pc = "loop"
    /\ k = 1
    /\ Len(df_local.idx) > Len(df.idx)
    /\ df.idx[1] = df.idx[Len(df.idx)] - months
    /\ Tickers[1] \in DOMAIN results
    /\ results[Tickers[1]] # << >>
    /\ results[Tickers[1]][1].ExitDate # df.idx[Len(df.idx)]

\* backtest returns from line 165, 181 or 209 with this summary.
Returning == pc = "summary" /\ pc' \in {"done", "all_for"}

ReturnedSummary == IF entry = "backtest" THEN ret'.summary ELSE summaries'[ticker]

EnteredAtNoPositivePrice(t) == IsCompleted(t) /\ ~Gt0(t.EntryPrice)

C16_GainIsTotalPnL ==
    Returning =>
        LET gain == Sub(ReturnedSummary.FinalCapital, Num(initial_capital))
        IN /\ ReturnedSummary.TotalPnL = SumPnL(SelectSeq(trades, IsCompleted))
           /\ (\A j \in 1..Len(trades) : Gt0(trades[j].EntryPrice)) =>
                  gain = ReturnedSummary.TotalPnL
           /\ gain # ReturnedSummary.TotalPnL =>
                  /\ \E j \in 1..Len(trades) : EnteredAtNoPositivePrice(trades[j])
                  /\ ReturnedSummary.FinalCapital = Num(0)

C16_ZeroQuantityTrade ==
    pc \in {"loop", "summary"} =>
        \A j \in 1..Len(trades) :
            /\ ~Gt0(trades[j].EntryPrice) => trades[j].Qty = Num(0)
            /\ EnteredAtNoPositivePrice(trades[j]) =>
                   (trades[j].PnL = Num(0) /\ capital = Num(0))

\* C16 (accounting identity): when backtest returns, Total P&L is the sum of
\* the P&L of the closed trades and, if every trade was entered at a price
\* > 0, Final Capital - initial_capital = Total P&L (also when the last
\* trade was force-closed or left open); the two differ only when a closed
\* trade was entered at a price <= 0, and such a trade has quantity 0 and
\* P&L 0 and leaves capital at 0.
C16_AccountingIdentity == []C16_ZeroQuantityTrade /\ [][C16_GainIsTotalPnL]_vars

C16_Witness ==
    /\ BacktestReturned
    /\ ret.summary.TotalTrades = 2
    /\ \A j \in 1..2 : Gt0(ret.trades_df[j].EntryPrice)
    /\ ret.summary.TotalPnL # Num(0)
    /\ ret.trades_df[1].PnL # Num(0)
    /\ ret.trades_df[2].PnL # Num(0)
    /\ Sub(ret.summary.FinalCapital, Num(initial_capital)) = ret.summary.TotalPnL

====
